---- MODULE Spec2Model ----
(***************************************************************************)
(* aceteam-nodes: the ForEach expansion (nodes/iteration.py), the sequence *)
(* and data adapter nodes it is built from, and the execution of the       *)
(* expanded graph by a topological dataflow engine.                        *)
(*                                                                         *)
(* Node ids are strings; a namespaced id is "<namespace>/<id>".            *)
(* A node is a record with id, type and, where the node class has them,    *)
(* params / data_type.  A record type (pydantic model built from a         *)
(* FieldInfo sequence) is represented by the sequence of its field names.  *)
(***************************************************************************)
EXTENDS Integers, Sequences, FiniteSets, TLC

VARIABLES
    workflow,   \* self.params.ace_workflow: the embedded workflow of the ForEach node
    input,      \* the runtime JSON value bound to the ForEach node's `sequence` input
    pc,         \* "start" | "expanded" | "failed" | "running" | "done" | "error" | "expand_called" | "called"
    result,     \* outcome of the first ForEachNode.run call
    input2,     \* the JSON value given to a second ForEachNode.run call on the same node
    result2,    \* outcome of that second call
    outputs,    \* engine: node id -> output record of every node that has run
    engineOut,  \* engine: the workflow output record, or the error it reported
    expandRes,  \* outcome of a stand-alone ExpandSequenceNode.run call
    call        \* a stand-alone operation on another node or value: its arguments and outcome

vars == <<workflow, input, pc, result, input2, result2, outputs, engineOut, expandRes, call>>

\* ------------------------------------------------------------------ bounds

\* longest input array given to the ForEach node
MaxLen == 2

\* largest number used as a sequence element or as a FieldInfo min / max / default
MaxNum == 2

\* number of class objects created while the registry is observed
MaxClasses == 3

\* ------------------------------------------------------------- utilities

None == [none |-> TRUE]

Range(s) == {s[k] : k \in 1..Len(s)}

\* number of positions of s holding x
Count(s, x) == Cardinality({k \in 1..Len(s) : s[k] = x})

\* all sequences over S of length n
SeqsOfLen(S, n) == [1..n -> S]

\* ----------------------------------------------------- graph data types

Node(id, type) == [id |-> id, type |-> type]

Edge(source_id, source_key, target_id, target_key) ==
    [source_id |-> source_id, source_key |-> source_key,
     target_id |-> target_id, target_key |-> target_key]

InputEdge(input_key, target_id, target_key) ==
    [input_key |-> input_key, target_id |-> target_id, target_key |-> target_key]

OutputEdge(source_id, source_key, output_key) ==
    [source_id |-> source_id, source_key |-> source_key, output_key |-> output_key]

FieldInfo(name, type) == [name |-> name, type |-> type]

\* Workflow(nodes=..., edges=..., input_edges=..., output_edges=...)
Workflow(nodes, edges, input_edges, output_edges) ==
    [nodes |-> nodes, edges |-> edges,
     input_edges |-> input_edges, output_edges |-> output_edges]

\* AceTeamWorkflow: a Workflow with declared inputs and outputs
AceTeamWorkflow(nodes, edges, input_edges, output_edges, inputs, outputs_) ==
    [nodes |-> nodes, edges |-> edges,
     input_edges |-> input_edges, output_edges |-> output_edges,
     inputs |-> inputs, outputs |-> outputs_]

\* build_pydantic_model(fields_info): the record type with exactly those fields
build_pydantic_model(fields_info) == [k \in 1..Len(fields_info) |-> fields_info[k].name]

input_type(wf) == build_pydantic_model(wf.inputs)
output_type(wf) == build_pydantic_model(wf.outputs)

\* ------------------------------------------------------------ namespacing

\* Node.with_namespace: the same node with id "<namespace>/<id>"
NodeWithNamespace(node, namespace) ==
    [node EXCEPT !.id = namespace \o "/" \o node.id]

\* Workflow.with_namespace: every node id and every edge endpoint prefixed
WorkflowWithNamespace(wf, namespace) ==
    [wf EXCEPT
        !.nodes = [k \in 1..Len(wf.nodes) |-> NodeWithNamespace(wf.nodes[k], namespace)],
        !.edges = [k \in 1..Len(wf.edges) |->
            [wf.edges[k] EXCEPT !.source_id = namespace \o "/" \o @,
                                !.target_id = namespace \o "/" \o @]],
        !.input_edges = [k \in 1..Len(wf.input_edges) |->
            [wf.input_edges[k] EXCEPT !.target_id = namespace \o "/" \o @]],
        !.output_edges = [k \in 1..Len(wf.output_edges) |->
            [wf.output_edges[k] EXCEPT !.source_id = namespace \o "/" \o @]]]

\* --------------------------------------------------- adapter node classes

\* GatherSequenceNode.key / ExpandSequenceNode.key
key(index) == "element_" \o ToString(index)

\* GatherSequenceNode.keys / ExpandSequenceNode.keys
keys(node) == [k \in 1..node.params.length |-> key(k - 1)]

GatherSequenceFromLength(id, length, element_type) ==
    [id |-> id, type |-> "GatherSequence",
     params |-> [length |-> length], element_type |-> element_type]

ExpandSequenceFromLength(id, length, element_type) ==
    [id |-> id, type |-> "ExpandSequence",
     params |-> [length |-> length], element_type |-> element_type]

GatherDataFromDataType(id, data_type) ==
    [id |-> id, type |-> "GatherData", data_type |-> data_type]

ExpandDataFromDataType(id, data_type) ==
    [id |-> id, type |-> "ExpandData", data_type |-> data_type]

JsonToSequenceFromDataType(id, data_type) ==
    [id |-> id, type |-> "JsonToSequence", data_type |-> data_type]

\* ------------------------------------------------------ ForEachNode.run

\* Edge.from_nodes(source=, source_key=, target=, target_key=)
EdgeFromNodes(source, source_key, target, target_key) ==
    Edge(source.id, source_key, target.id, target_key)

\* namespace = f"element_{i}"
Namespace(i) == "element_" \o ToString(i)

\* ExpandDataNode.from_data_type(id="input_adapter", ...).with_namespace(namespace)
InputAdapter(wf, i) ==
    NodeWithNamespace(ExpandDataFromDataType("input_adapter", input_type(wf)), Namespace(i))

\* GatherDataNode.from_data_type(id="output_adapter", ...).with_namespace(namespace)
OutputAdapter(wf, i) ==
    NodeWithNamespace(GatherDataFromDataType("output_adapter", output_type(wf)), Namespace(i))

\* ItemWorkflow with every iteration put under the namespace of the first
MutItemWorkflow(wf, i) == WorkflowWithNamespace(wf, Namespace(0))

\* item_workflow = workflow.with_namespace(namespace)
ItemWorkflow(wf, i) == WorkflowWithNamespace(wf, Namespace(i))

\* IterationNodes without the final nodes.append(output_adapter)
MutIterationNodes(wf, i) ==
    <<InputAdapter(wf, i)>> \o ItemWorkflow(wf, i).nodes

\* nodes.append(input_adapter); nodes.extend(item_workflow.nodes); nodes.append(output_adapter)
IterationNodes(wf, i) ==
    <<InputAdapter(wf, i)>> \o ItemWorkflow(wf, i).nodes \o <<OutputAdapter(wf, i)>>

\* ExpandEdge aimed at the adapter's id before namespacing
MutExpandEdge(expand, input_adapter, i) ==
    Edge(expand.id, key(i), "input_adapter", "data")

\* the edge expand.element_i -> input_adapter.data
ExpandEdge(expand, input_adapter, i) ==
    EdgeFromNodes(expand, key(i), input_adapter, "data")

\* InputAdapterEdges with source_key taken from target_key instead of input_key
MutInputAdapterEdges(input_adapter, item_workflow) ==
    [k \in 1..Len(item_workflow.input_edges) |->
        Edge(input_adapter.id, item_workflow.input_edges[k].target_key,
             item_workflow.input_edges[k].target_id,
             item_workflow.input_edges[k].target_key)]

\* one edge input_adapter.<input_key> -> <target>.<target_key> per input_edge
InputAdapterEdges(input_adapter, item_workflow) ==
    [k \in 1..Len(item_workflow.input_edges) |->
        Edge(input_adapter.id, item_workflow.input_edges[k].input_key,
             item_workflow.input_edges[k].target_id,
             item_workflow.input_edges[k].target_key)]

\* OutputAdapterEdges with target_key taken from source_key instead of output_key
MutOutputAdapterEdges(output_adapter, item_workflow) ==
    [k \in 1..Len(item_workflow.output_edges) |->
        Edge(item_workflow.output_edges[k].source_id,
             item_workflow.output_edges[k].source_key,
             output_adapter.id, item_workflow.output_edges[k].source_key)]

\* one edge <source>.<source_key> -> output_adapter.<output_key> per output_edge
OutputAdapterEdges(output_adapter, item_workflow) ==
    [k \in 1..Len(item_workflow.output_edges) |->
        Edge(item_workflow.output_edges[k].source_id,
             item_workflow.output_edges[k].source_key,
             output_adapter.id, item_workflow.output_edges[k].output_key)]

\* GatherEdge wired to the next gather port
MutGatherEdge(output_adapter, gather, i) ==
    EdgeFromNodes(output_adapter, "data", gather, key(i + 1))

\* the edge output_adapter.data -> gather.element_i
GatherEdge(output_adapter, gather, i) ==
    EdgeFromNodes(output_adapter, "data", gather, key(i))

\* the edges appended by one pass of the loop body, in the order of the code
IterationEdges(wf, expand, gather, i) ==
    <<ExpandEdge(expand, InputAdapter(wf, i), i)>>
    \o InputAdapterEdges(InputAdapter(wf, i), ItemWorkflow(wf, i))
    \o ItemWorkflow(wf, i).edges
    \o OutputAdapterEdges(OutputAdapter(wf, i), ItemWorkflow(wf, i))
    \o <<GatherEdge(OutputAdapter(wf, i), gather, i)>>

\* ForEachLoop running for i in range(N + 1)
RECURSIVE MutForEachLoop(_, _, _, _, _, _)
MutForEachLoop(wf, expand, gather, N, i, acc) ==
    IF i > N THEN acc
    ELSE MutForEachLoop(wf, expand, gather, N, i + 1,
            [nodes |-> acc.nodes \o IterationNodes(wf, i),
             edges |-> acc.edges \o IterationEdges(wf, expand, gather, i)])

\* for i in range(N): ... ; acc is the pair (nodes, edges) built so far
RECURSIVE ForEachLoop(_, _, _, _, _, _)
ForEachLoop(wf, expand, gather, N, i, acc) ==
    IF i >= N THEN acc
    ELSE ForEachLoop(wf, expand, gather, N, i + 1,
            [nodes |-> acc.nodes \o IterationNodes(wf, i),
             edges |-> acc.edges \o IterationEdges(wf, expand, gather, i)])

\* JsonToSequenceEdge with source and target exchanged
MutJsonToSequenceEdge(json_to_sequence, expand) ==
    EdgeFromNodes(expand, "sequence", json_to_sequence, "sequence")

\* the edge json_to_sequence.sequence -> expand.sequence, appended after the loop
JsonToSequenceEdge(json_to_sequence, expand) ==
    EdgeFromNodes(json_to_sequence, "sequence", expand, "sequence")

\* SequenceLength counting the distinct elements only
MutSequenceLength(in) == Cardinality(Range(in.root))

\* SequenceLength one short on every non-empty sequence
MutSequenceLengthShort(in) == IF Len(in.root) = 0 THEN 0 ELSE Len(in.root) - 1

\* len(seq.root) of the JSON value bound to `sequence`: the number of items of
\* a list, of characters of a str
SequenceLength(in) == Len(in.root)

\* ForEachNode.run(context, input) with self.params.ace_workflow = wf
ForEachRun(wf, in) ==
    IF in.kind \notin {"array", "string"} THEN [ok |-> FALSE, error |-> "TypeError"]
    ELSE
    LET N == SequenceLength(in)
        json_to_sequence == JsonToSequenceFromDataType("json_to_sequence", input_type(wf))
        expand == ExpandSequenceFromLength("expand", N, input_type(wf))
        gather == GatherSequenceFromLength("gather", N, output_type(wf))
        loop == ForEachLoop(wf, expand, gather, N, 0,
                    [nodes |-> <<json_to_sequence, expand, gather>>, edges |-> <<>>])
    IN  [ok |-> TRUE,
         graph |-> Workflow(
            loop.nodes,
            loop.edges \o <<JsonToSequenceEdge(json_to_sequence, expand)>>,
            <<InputEdge("sequence", json_to_sequence.id, "sequence")>>,
            <<OutputEdge(gather.id, "sequence", "sequence")>>)]

\* ------------------------------------------------------ node run methods

Ok(data) == [ok |-> TRUE, data |-> data]
Err(error, message) == [ok |-> FALSE, error |-> error, message |-> message]

\* the assertion message of ExpandSequenceNode.run
LengthMessage(N, actual) ==
    "Expected sequence of length " \o ToString(N) \o ", but got " \o ToString(actual)

\* ExpandSequenceNode.run: the assert, then one port element_i per index
ExpandSequenceRun(node, in) ==
    LET N == node.params.length IN
    IF Len(in.sequence) # N
    THEN Err("AssertionError", LengthMessage(N, Len(in.sequence)))
    ELSE Ok([p \in {key(i) : i \in 0..(N - 1)} |->
                in.sequence[(CHOOSE i \in 0..(N - 1) : key(i) = p) + 1]])

\* GatherSequenceNode.run reading the keys in reverse order
MutGatherSequenceRun(node, in) ==
    IF \E k \in 1..Len(keys(node)) : keys(node)[k] \notin DOMAIN in
    THEN Err("KeyError", "missing element")
    ELSE Ok([sequence |->
            [k \in 1..Len(keys(node)) |-> in[keys(node)[Len(keys(node)) + 1 - k]]]])

\* GatherSequenceNode.run: [input_dict[key] for key in self.keys]
GatherSequenceRun(node, in) ==
    IF \E k \in 1..Len(keys(node)) : keys(node)[k] \notin DOMAIN in
    THEN Err("KeyError", "missing element")
    ELSE Ok([sequence |-> [k \in 1..Len(keys(node)) |-> in[keys(node)[k]]]])

\* ExpandDataNode.run: return input.data.root
ExpandDataRun(node, in) == Ok(in.data)

\* GatherDataNode.run: the whole input record under `data`
GatherDataRun(node, in) == Ok([data |-> in])

\* data_type.model_validate(item): the declared fields of a JSON object
ModelValidate(data_type, item) ==
    IF \A k \in 1..Len(data_type) : data_type[k] \in DOMAIN item
    THEN Ok([f \in Range(data_type) |-> item[f]])
    ELSE Err("ValidationError", "field required")

\* isinstance(items, Sequence) on the root of a JSON value: a Python list is a
\* Sequence and so is a Python str; None, bool, int, float and dict are not
IsSequence(json) == json.kind \in {"array", "string"}

\* self.data_type.model_validate(item) for an item of a JSON value of the
\* given kind: iterating a str yields one-character strs, which are no mapping
ItemValidate(data_type, kind, item) ==
    IF kind = "string"
    THEN Err("ValidationError", "Input should be a valid dictionary")
    ELSE ModelValidate(data_type, item)

\* JsonToSequenceNode.run
JsonToSequenceRun(node, in) ==
    IF ~IsSequence(in.sequence)
    THEN Err("UserException", "Expected a JSON sequence")
    ELSE LET items == in.sequence.root
             kind == in.sequence.kind IN
         IF \E k \in 1..Len(items) : ~ItemValidate(node.data_type, kind, items[k]).ok
         THEN Err("ValidationError", "field required")
         ELSE Ok([sequence |->
                    [k \in 1..Len(items) |-> ItemValidate(node.data_type, kind, items[k]).data]])

\* NotNode.run / AndNode.run / OrNode.run
NotRun(in) == Ok([result |-> ~in.a])
AndRun(in) == Ok([result |-> in.a /\ in.b])
OrRun(in) == Ok([result |-> in.a \/ in.b])

\* node.run(context, input), dispatched on the node's type
RunNode(node, in) ==
    CASE node.type = "JsonToSequence" -> JsonToSequenceRun(node, in)
      [] node.type = "ExpandSequence" -> ExpandSequenceRun(node, in)
      [] node.type = "GatherSequence" -> GatherSequenceRun(node, in)
      [] node.type = "ExpandData" -> ExpandDataRun(node, in)
      [] node.type = "GatherData" -> GatherDataRun(node, in)
      [] node.type = "Not" -> NotRun(in)
      [] node.type = "And" -> AndRun(in)
      [] node.type = "Or" -> OrRun(in)

\* the input ports a node cannot run without
RequiredPorts(node) ==
    CASE node.type = "JsonToSequence" -> {"sequence"}
      [] node.type = "ExpandSequence" -> {"sequence"}
      [] node.type = "GatherSequence" -> Range(keys(node))
      [] node.type = "ExpandData" -> {"data"}
      [] node.type = "GatherData" -> Range(node.data_type)
      [] node.type = "Not" -> {"a"}
      [] node.type = "And" -> {"a", "b"}
      [] node.type = "Or" -> {"a", "b"}

\* --------------------------------------------------- embedded workflows

Bool(name) == FieldInfo(name, "boolean")

\* no nodes: one declared input that nothing reads, no outputs
WfEmpty ==
    AceTeamWorkflow(<<>>, <<>>, <<>>, <<>>, <<Bool("x")>>, <<>>)

\* y = NOT x
WfNot ==
    AceTeamWorkflow(
        <<Node("n", "Not")>>, <<>>,
        <<InputEdge("x", "n", "a")>>,
        <<OutputEdge("n", "result", "y")>>,
        <<Bool("x")>>, <<Bool("y")>>)

\* y = NOT NOT x, the second node listed first
WfChain ==
    AceTeamWorkflow(
        <<Node("n2", "Not"), Node("n1", "Not")>>,
        <<Edge("n1", "result", "n2", "a")>>,
        <<InputEdge("x", "n1", "a")>>,
        <<OutputEdge("n2", "result", "y")>>,
        <<Bool("x")>>, <<Bool("y")>>)

\* y = x AND w
WfAnd ==
    AceTeamWorkflow(
        <<Node("g", "And")>>, <<>>,
        <<InputEdge("x", "g", "a"), InputEdge("w", "g", "b")>>,
        <<OutputEdge("g", "result", "y")>>,
        <<Bool("x"), Bool("w")>>, <<Bool("y")>>)

\* x fans out to two nodes; two outputs: y = x OR NOT x, z = NOT x
WfFan ==
    AceTeamWorkflow(
        <<Node("n", "Not"), Node("g", "Or")>>,
        <<Edge("n", "result", "g", "b")>>,
        <<InputEdge("x", "n", "a"), InputEdge("x", "g", "a")>>,
        <<OutputEdge("g", "result", "y"), OutputEdge("n", "result", "z")>>,
        <<Bool("x")>>, <<Bool("y"), Bool("z")>>)

\* a node that is itself called input_adapter
WfInputAdapter ==
    AceTeamWorkflow(
        <<Node("input_adapter", "Not")>>, <<>>,
        <<InputEdge("x", "input_adapter", "a")>>,
        <<OutputEdge("input_adapter", "result", "y")>>,
        <<Bool("x")>>, <<Bool("y")>>)

\* a node that is itself called output_adapter
WfOutputAdapter ==
    AceTeamWorkflow(
        <<Node("n1", "Not"), Node("output_adapter", "Not")>>,
        <<Edge("n1", "result", "output_adapter", "a")>>,
        <<InputEdge("x", "n1", "a")>>,
        <<OutputEdge("output_adapter", "result", "y")>>,
        <<Bool("x")>>, <<Bool("y")>>)

\* nodes called like the three shared nodes of the expansion
WfShared ==
    AceTeamWorkflow(
        <<Node("expand", "And"), Node("gather", "Not")>>,
        <<Edge("expand", "result", "gather", "a")>>,
        <<InputEdge("x", "expand", "a"), InputEdge("w", "expand", "b")>>,
        <<OutputEdge("gather", "result", "y")>>,
        <<Bool("x"), Bool("w")>>, <<Bool("y")>>)

\* nodes called like a namespace token and like the first shared node
WfToken ==
    AceTeamWorkflow(
        <<Node("element_0", "Not"), Node("json_to_sequence", "Not")>>,
        <<Edge("element_0", "result", "json_to_sequence", "a")>>,
        <<InputEdge("x", "element_0", "a")>>,
        <<OutputEdge("json_to_sequence", "result", "y")>>,
        <<Bool("x")>>, <<Bool("y")>>)

EmbeddedWorkflows ==
    {WfEmpty, WfNot, WfChain, WfAnd, WfFan,
     WfInputAdapter, WfOutputAdapter, WfShared, WfToken}

\* JSON objects carrying exactly the declared inputs of wf
Items(wf) == [Range(input_type(wf)) -> BOOLEAN]

JsonArray(root) == [kind |-> "array", root |-> root]
JsonNull == [kind |-> "null"]

\* the JSON values bound to the ForEach node's `sequence` input
Inputs(wf) ==
    {JsonArray(root) : root \in UNION {SeqsOfLen(Items(wf), n) : n \in 0..MaxLen}}
    \cup {JsonNull}

\* JSON strings bound to the same input: len() is defined on a str as well
StringInputs == {[kind |-> "string", root |-> root] :
                    root \in UNION {SeqsOfLen({"a"}, n) : n \in 0..MaxLen}}

\* the values of one JSON kind a second run of the node draws from
InputsOfKind(wf, kind) == IF kind = "string" THEN StringInputs ELSE Inputs(wf)

\* ------------------------------------------- the embedded workflow alone

\* the edges and input_edges feeding node id of g
EdgesInto(g, id) == {e \in Range(g.edges) : e.target_id = id}
InputEdgesInto(g, id) == {e \in Range(g.input_edges) : e.target_id = id}

\* the output record of node id when wf runs alone on the input record item
RECURSIVE NodeOutput(_, _, _, _)
NodeOutput(wf, item, id, fuel) ==
    LET node == CHOOSE n \in Range(wf.nodes) : n.id = id
        ports == {e.target_key : e \in EdgesInto(wf, id)}
                 \cup {e.target_key : e \in InputEdgesInto(wf, id)}
        in == [p \in ports |->
                IF \E e \in InputEdgesInto(wf, id) : e.target_key = p
                THEN item[(CHOOSE e \in InputEdgesInto(wf, id) : e.target_key = p).input_key]
                ELSE LET e == CHOOSE e \in EdgesInto(wf, id) : e.target_key = p
                     IN  IF fuel = 0 THEN FALSE
                         ELSE NodeOutput(wf, item, e.source_id, fuel - 1)[e.source_key]]
    IN  RunNode(node, in).data

\* the output record of wf run alone on the input record item
RunAlone(wf, item) ==
    [o \in {e.output_key : e \in Range(wf.output_edges)} |->
        LET e == CHOOSE e \in Range(wf.output_edges) : e.output_key = o
        IN  NodeOutput(wf, item, e.source_id, Len(wf.nodes))[e.source_key]]

\* ------------------------------------------------------------ the engine

\* node ids are pairwise distinct
IdsUnique(g) ==
    \A j, k \in 1..Len(g.nodes) : g.nodes[j].id = g.nodes[k].id => j = k

\* every edge endpoint names a node of the graph
EndpointsExist(g) ==
    LET ids == {n.id : n \in Range(g.nodes)} IN
    /\ \A e \in Range(g.edges) : e.source_id \in ids /\ e.target_id \in ids
    /\ \A e \in Range(g.input_edges) : e.target_id \in ids
    /\ \A e \in Range(g.output_edges) : e.source_id \in ids

\* graph validation before execution
ValidGraph(g) == IdsUnique(g) /\ EndpointsExist(g)

\* every node feeding node has run
Ready(g, outs, node) ==
    \A e \in EdgesInto(g, node.id) : e.source_id \in DOMAIN outs

\* every port read through an edge into node was produced
PortsPresent(g, wfIn, outs, node) ==
    /\ \A e \in EdgesInto(g, node.id) : e.source_key \in DOMAIN outs[e.source_id]
    /\ \A e \in InputEdgesInto(g, node.id) : e.input_key \in DOMAIN wfIn

\* the input record the engine hands to node
NodeInput(g, wfIn, outs, node) ==
    LET ports == {e.target_key : e \in EdgesInto(g, node.id)}
                 \cup {e.target_key : e \in InputEdgesInto(g, node.id)}
    IN  [p \in ports |->
            IF \E e \in InputEdgesInto(g, node.id) : e.target_key = p
            THEN wfIn[(CHOOSE e \in InputEdgesInto(g, node.id) : e.target_key = p).input_key]
            ELSE LET e == CHOOSE e \in EdgesInto(g, node.id) : e.target_key = p
                 IN  outs[e.source_id][e.source_key]]

\* the workflow output record read through the output_edges
WorkflowOutput(g, outs) ==
    [o \in {e.output_key : e \in Range(g.output_edges)} |->
        LET e == CHOOSE e \in Range(g.output_edges) : e.output_key = o
        IN  outs[e.source_id][e.source_key]]

\* ------------------------------------------------- stand-alone operations

\* no stand-alone operation has been performed
NoCall == [op |-> "none"]

\* Stand-alone operations read neither the ForEach node nor its input: they
\* are taken from one initial state instead of being repeated in all of them.
StandAlone == pc = "start" /\ workflow = WfEmpty /\ input = JsonNull

\* the values carried by the sequences of the stand-alone adapter calls
Values == 0..MaxNum

\* the kinds of JSON value
JsonKinds == {"null", "boolean", "number", "string", "object", "array"}

\* the Data types a stand-alone JsonToSequence node converts to
DataTypes == {<<>>, <<"x">>}

\* array items: objects with the field x, and an object without it
JsonItems == [{"x"} -> BOOLEAN] \cup {[y |-> TRUE]}

\* the roots of the JSON values of a kind; a string's root is the sequence of
\* its characters, and null has the one root None
JsonRoots(kind) ==
    CASE kind = "null" -> {None}
      [] kind = "boolean" -> BOOLEAN
      [] kind = "number" -> Values
      [] kind = "string" -> UNION {SeqsOfLen({"a", "b"}, n) : n \in 0..MaxLen}
      [] kind = "object" -> JsonItems
      [] kind = "array" -> UNION {SeqsOfLen(JsonItems, n) : n \in 0..MaxLen}

\* JSONValue(root)
JsonValue(kind, root) == IF kind = "null" THEN JsonNull ELSE [kind |-> kind, root |-> root]

\* GatherSequence.from_length(N) on ports, then ExpandSequence.from_length(N) on its output
GatherExpand(N, ports) ==
    LET gathered == GatherSequenceRun(GatherSequenceFromLength("gather", N, "Value"), ports)
    IN  [op |-> "gather_expand", length |-> N, ports |-> ports,
         gathered |-> gathered,
         expanded |-> IF gathered.ok
                      THEN ExpandSequenceRun(ExpandSequenceFromLength("expand", N, "Value"),
                                             gathered.data)
                      ELSE gathered]

\* ExpandSequence.from_length(N) on a sequence, then GatherSequence.from_length(N) on its output
ExpandGather(N, seq) ==
    LET expanded == ExpandSequenceRun(ExpandSequenceFromLength("expand", N, "Value"),
                                      [sequence |-> seq])
    IN  [op |-> "expand_gather", length |-> N, sequence |-> seq,
         expanded |-> expanded,
         gathered |-> IF expanded.ok
                      THEN GatherSequenceRun(GatherSequenceFromLength("gather", N, "Value"),
                                             expanded.data)
                      ELSE expanded]

\* --------------------------------------------------- workflow validation

\* an optional attribute: Absent is Python's None, Some(v) any other value
Absent == <<>>
Some(v) == <<v>>

\* _non_parametric_field_type_to_type
non_parametric_field_type_to_type(type) ==
    CASE type = "boolean" -> "BooleanValue"
      [] type = "field_list" -> "SequenceValue[FieldInfoValue]"
      [] type = "iteration_indexed_field_list" -> "SequenceValue[IterationIndexedFieldInfoValue]"
      [] type \in {"file", "file:audio", "file:mp3", "file:video"} -> "FileValue"
      [] type = "file:csv" -> "CSVFileValue"
      [] type = "file:json" -> "JSONFileValue"
      [] type = "file:jsonlines" -> "JSONLinesFileValue"
      [] type = "file:pdf" -> "PDFFileValue"
      [] type = "file:text" -> "TextFileValue"
      [] type \in {"gantt_chart", "graph", "json", "workflow"} -> "JSONValue"
      [] type \in {"long_text", "model", "short_text", "sql"} -> "StringValue"
      [] type = "model_list" -> "SequenceValue[StringValue]"
      [] type = "number" -> "FloatValue"

\* FieldInfo.type_parameters, () unless given
type_parameters(field) ==
    IF "type_parameters" \in DOMAIN field THEN field.type_parameters ELSE <<>>

\* FieldInfo.python_type
RECURSIVE python_type(_)
python_type(field) ==
    IF field.type = "sequence"
    THEN IF Len(type_parameters(field)) > 0
         THEN "SequenceValue[" \o python_type(type_parameters(field)[1]) \o "]"
         ELSE "SequenceValue[JSONValue]"
    ELSE non_parametric_field_type_to_type(field.type)

\* input_fields_info of the leaf nodes placed in workflows
NodeInputFieldsInfo(node) ==
    CASE node.type = "Not" -> <<Bool("a")>>
      [] node.type \in {"And", "Or"} -> <<Bool("a"), Bool("b")>>
      [] node.type = "Equal" -> <<FieldInfo("a", "number"), FieldInfo("b", "number")>>
      [] node.type = "DataTransform" -> <<FieldInfo("input", "long_text")>>

\* output_fields_info of the leaf nodes placed in workflows
NodeOutputFieldsInfo(node) ==
    CASE node.type \in {"Not", "And", "Or", "Equal"} -> <<Bool("result")>>
      [] node.type = "DataTransform" -> <<FieldInfo("output", "long_text")>>

\* the member types of build_pydantic_model(fields_info), by name
MemberTypes(fields_info) ==
    [n \in {fields_info[k].name : k \in 1..Len(fields_info)} |->
        python_type(fields_info[CHOOSE k \in 1..Len(fields_info) :
                        /\ fields_info[k].name = n
                        /\ \A j \in (k + 1)..Len(fields_info) : fields_info[j].name # n])]

\* edge.validate_types: the port exists and has the same value type
ValidateTypes(value_type, port_types, port) ==
    port \in DOMAIN port_types /\ port_types[port] = value_type

\* a name occurs twice among the fields
HasDuplicate(fields) ==
    \E j, k \in 1..Len(fields) : j < k /\ fields[j].name = fields[k].name

\* the field of that name, for fields without duplicates
FieldByKey(fields, name) == fields[CHOOSE k \in 1..Len(fields) : fields[k].name = name]

\* self.nodes_by_id[id]
NodeById(wf, id) == wf.nodes[CHOOSE k \in 1..Len(wf.nodes) : wf.nodes[k].id = id]

\* one pass of the loop of _validate_input_fields: "" if the edge passes, else
\* the error raised
InputEdgeError(wf, input_edge) ==
    IF HasDuplicate(wf.inputs) THEN "ValidationError"
    ELSE IF input_edge.input_key \notin {wf.inputs[k].name : k \in 1..Len(wf.inputs)}
         THEN "KeyError"
    ELSE IF input_edge.target_id \notin {wf.nodes[k].id : k \in 1..Len(wf.nodes)}
         THEN "KeyError"
    ELSE IF ~ValidateTypes(python_type(FieldByKey(wf.inputs, input_edge.input_key)),
                           MemberTypes(NodeInputFieldsInfo(NodeById(wf, input_edge.target_id))),
                           input_edge.target_key)
         THEN "GraphError"
    ELSE ""

\* one pass of the loop of _validate_output_fields
OutputEdgeError(wf, output_edge) ==
    IF HasDuplicate(wf.outputs) THEN "ValidationError"
    ELSE IF output_edge.output_key \notin {wf.outputs[k].name : k \in 1..Len(wf.outputs)}
         THEN "KeyError"
    ELSE IF output_edge.source_id \notin {wf.nodes[k].id : k \in 1..Len(wf.nodes)}
         THEN "KeyError"
    ELSE IF ~ValidateTypes(python_type(FieldByKey(wf.outputs, output_edge.output_key)),
                           MemberTypes(NodeOutputFieldsInfo(NodeById(wf, output_edge.source_id))),
                           output_edge.source_key)
         THEN "GraphError"
    ELSE ""

\* the first element of a sequence of errors that is one, or Ok(wf)
FirstError(wf, errors) ==
    IF \A k \in 1..Len(errors) : errors[k] = ""
    THEN Ok(wf)
    ELSE Err(errors[CHOOSE k \in 1..Len(errors) :
                        errors[k] # "" /\ \A j \in 1..(k - 1) : errors[j] = ""],
             "workflow refused")

\* AceTeamWorkflow._validate_input_fields
ValidateInputFields(wf) ==
    FirstError(wf, [k \in 1..Len(wf.input_edges) |-> InputEdgeError(wf, wf.input_edges[k])])

\* AceTeamWorkflow._validate_output_fields without its loop
MutValidateOutputFields(wf) == Ok(wf)

\* AceTeamWorkflow._validate_output_fields
ValidateOutputFields(wf) ==
    FirstError(wf, [k \in 1..Len(wf.output_edges) |-> OutputEdgeError(wf, wf.output_edges[k])])

\* AceTeamWorkflow(...): the two after-validators in their order
AceTeamWorkflowModelValidate(wf) ==
    IF ~ValidateInputFields(wf).ok THEN ValidateInputFields(wf) ELSE ValidateOutputFields(wf)

\* the kinds of the fields of the workflows given to validation
WorkflowFieldTypes == {"boolean", "number", "short_text", "long_text"}

\* up to two declared fields of one name, of any of these kinds
FieldsNamed(name) ==
    UNION {SeqsOfLen({FieldInfo(name, t) : t \in WorkflowFieldTypes}, n) : n \in 0..2}

\* a workflow of one node n, with or without an input edge from x to the
\* node's first input port and an output edge from its output port to y
OneNodeWorkflow(type, inputs, outputs_, with_input_edge, with_output_edge) ==
    AceTeamWorkflow(
        <<Node("n", type)>>, <<>>,
        IF with_input_edge
        THEN <<InputEdge("x", "n", NodeInputFieldsInfo(Node("n", type))[1].name)>>
        ELSE <<>>,
        IF with_output_edge
        THEN <<OutputEdge("n", NodeOutputFieldsInfo(Node("n", type))[1].name, "y")>>
        ELSE <<>>,
        inputs, outputs_)

\* ------------------------------------------------------ conditional nodes

\* CONDITION_FIELD_INFO; its display name and description do not take part in
\* any comparison
CONDITION_FIELD_INFO == FieldInfo("condition", "boolean")

\* JSONValue(root) holding a serialised workflow
JsonObject(root) == JsonValue("object", root)

\* the fields of AceTeamWorkflow without a default
WorkflowFields == {"nodes", "edges", "input_edges", "output_edges", "inputs", "outputs"}

\* AceTeamWorkflow.model_validate(json.root): only a JSON object with the
\* fields of a workflow is parsed, and then the validators run
WorkflowModelValidate(json) ==
    IF json.kind # "object"
    THEN Err("ValidationError", "Input should be a valid dictionary")
    ELSE IF ~(WorkflowFields \subseteq DOMAIN json.root)
         THEN Err("ValidationError", "Field required")
         ELSE AceTeamWorkflowModelValidate(json.root)

\* IfParams.workflow_if_true / IfElseParams.workflow_if_true, evaluated on access
workflow_if_true(params) == WorkflowModelValidate(params.if_true)

\* IfElseParams.workflow_if_false, evaluated on access
workflow_if_false(params) == WorkflowModelValidate(params.if_false)

\* {field.name: field.type for field in fields}: a later field of the same
\* name replaces an earlier one
TypesByName(fields) ==
    [n \in {fields[k].name : k \in 1..Len(fields)} |->
        fields[CHOOSE k \in 1..Len(fields) :
                    /\ fields[k].name = n
                    /\ \A j \in (k + 1)..Len(fields) : fields[j].name # n].type]

\* IfNode(id=..., params=IfParams(if_true=...)): the class declares no validator
IfNode(id, if_true) ==
    Ok([id |-> id, type |-> "If", params |-> [if_true |-> if_true]])

\* IfNode.input_fields_info, evaluated on first access
IfInputFieldsInfo(node) ==
    LET wf == workflow_if_true(node.params) IN
    IF ~wf.ok THEN wf
    ELSE IF "condition" \in DOMAIN TypesByName(wf.data.inputs)
         THEN Err("AssertionError", "If: condition is a reserved keyword")
         ELSE Ok(<<CONDITION_FIELD_INFO>> \o wf.data.inputs)

\* IfNode.output_fields_info, evaluated on first access
IfOutputFieldsInfo(node) ==
    LET wf == workflow_if_true(node.params) IN
    IF ~wf.ok THEN wf ELSE Ok(wf.data.outputs)

\* IfNode.run with the branches exchanged
MutIfRun(node, in) ==
    IF in.condition THEN Ok(None) ELSE workflow_if_true(node.params)

\* IfNode.run
IfRun(node, in) ==
    IF in.condition THEN workflow_if_true(node.params) ELSE Ok(None)

\* IfElseNode(id=..., params=IfElseParams(if_true=..., if_false=...)): no validator
IfElseNode(id, if_true, if_false) ==
    Ok([id |-> id, type |-> "IfElse",
        params |-> [if_true |-> if_true, if_false |-> if_false]])

\* IfElseNode.input_fields_info, evaluated on first access
IfElseInputFieldsInfo(node) ==
    LET wt == workflow_if_true(node.params)
        wf == workflow_if_false(node.params) IN
    IF ~wt.ok THEN wt
    ELSE IF ~wf.ok THEN wf
    ELSE IF TypesByName(wt.data.inputs) # TypesByName(wf.data.inputs)
         THEN Err("AssertionError", "IfElse: true and false inputs must match")
    ELSE IF "condition" \in DOMAIN TypesByName(wt.data.inputs)
         THEN Err("AssertionError", "IfElse: condition is a reserved keyword")
         ELSE Ok(<<CONDITION_FIELD_INFO>> \o wt.data.inputs)

\* IfElseNode.output_fields_info, evaluated on first access
IfElseOutputFieldsInfo(node) ==
    LET wt == workflow_if_true(node.params)
        wf == workflow_if_false(node.params) IN
    IF ~wt.ok THEN wt
    ELSE IF ~wf.ok THEN wf
    ELSE IF TypesByName(wt.data.outputs) # TypesByName(wf.data.outputs)
         THEN Err("AssertionError", "IfElse: true and false outputs must match")
         ELSE Ok(wt.data.outputs)

\* IfElseNode.run with the branches exchanged
MutIfElseRun(node, in) ==
    IF in.condition THEN workflow_if_false(node.params) ELSE workflow_if_true(node.params)

\* IfElseNode.run
IfElseRun(node, in) ==
    IF in.condition THEN workflow_if_true(node.params) ELSE workflow_if_false(node.params)

\* an input called condition
WfCondition ==
    AceTeamWorkflow(
        <<Node("n", "Not")>>, <<>>,
        <<InputEdge("condition", "n", "a")>>,
        <<OutputEdge("n", "result", "y")>>,
        <<Bool("condition")>>, <<Bool("y")>>)

\* WfAnd with its inputs declared in the other order
WfAndSwapped ==
    AceTeamWorkflow(
        <<Node("g", "And")>>, <<>>,
        <<InputEdge("x", "g", "a"), InputEdge("w", "g", "b")>>,
        <<OutputEdge("g", "result", "y")>>,
        <<Bool("w"), Bool("x")>>, <<Bool("y")>>)

\* WfEmpty with an input of another kind
WfEmptyNumber ==
    AceTeamWorkflow(<<>>, <<>>, <<>>, <<>>, <<FieldInfo("x", "number")>>, <<>>)

\* WfEmpty with a described input
WfEmptyDescribed ==
    AceTeamWorkflow(<<>>, <<>>, <<>>, <<>>,
        <<[name |-> "x", type |-> "boolean", description |-> "an input"]>>, <<>>)

\* the workflows embedded in conditional nodes
BranchWorkflows ==
    {WfEmpty, WfNot, WfChain, WfAnd, WfFan,
     WfCondition, WfAndSwapped, WfEmptyNumber, WfEmptyDescribed}

\* the values of the if_true / if_false parameters: a serialised workflow, or
\* the default JSONValue(None)
BranchValues == {JsonObject(wf) : wf \in BranchWorkflows} \cup {JsonNull}

\* ------------------------------------------------------------ FieldInfo

\* class FieldType
FieldTypes ==
    {"boolean", "field_list", "iteration_indexed_field_list", "file", "file:audio",
     "file:csv", "file:json", "file:jsonlines", "file:mp3", "file:pdf", "file:text",
     "file:video", "gantt_chart", "graph", "json", "long_text", "model", "model_list",
     "number", "sequence", "short_text", "sql", "workflow"}

\* FieldInfo._validate_number_fields with the three orderings tested by
\* truthiness (if self.min and self.max) instead of by "is not None"
MutValidateNumberFields(f) ==
    /\ f.type # "number" => (f.min = Absent /\ f.max = Absent /\ f.step = Absent)
    /\ f.type # "sql" => f.database_connection = Absent
    /\ f.type \notin {"long_text", "short_text"} => f.template_parameters = Absent
    /\ f.type # "short_text" => f.options = Absent
    /\ (f.min \notin {Absent, Some(0)} /\ f.max \notin {Absent, Some(0)}) => f.min[1] <= f.max[1]
    /\ (f.min \notin {Absent, Some(0)} /\ f.default \notin {Absent, Some(0)}) =>
            f.min[1] <= f.default[1]
    /\ (f.max \notin {Absent, Some(0)} /\ f.default \notin {Absent, Some(0)}) =>
            f.default[1] <= f.max[1]

\* FieldInfo._validate_number_fields: TRUE iff every assert passes
ValidateNumberFields(f) ==
    /\ f.type # "number" => (f.min = Absent /\ f.max = Absent /\ f.step = Absent)
    /\ f.type # "sql" => f.database_connection = Absent
    /\ f.type \notin {"long_text", "short_text"} => f.template_parameters = Absent
    /\ f.type # "short_text" => f.options = Absent
    /\ (f.min # Absent /\ f.max # Absent) => f.min[1] <= f.max[1]
    /\ (f.min # Absent /\ f.default # Absent) => f.min[1] <= f.default[1]
    /\ (f.max # Absent /\ f.default # Absent) => f.default[1] <= f.max[1]

\* FieldInfo._validate_sequence_fields with the sequence bound applied to every type
MutValidateSequenceFields(f) == Len(f.type_parameters) <= 1

\* FieldInfo._validate_sequence_fields: TRUE iff the assert passes
ValidateSequenceFields(f) ==
    IF f.type = "sequence"
    THEN Len(f.type_parameters) <= 1
    ELSE Len(f.type_parameters) = 0

\* FieldInfo(**attributes): the two after-validators run on the parsed model,
\* and a failed assert in a validator is reported as a ValidationError
FieldInfoModelValidate(f) ==
    IF ValidateNumberFields(f) /\ ValidateSequenceFields(f)
    THEN Ok(f)
    ELSE Err("ValidationError", "Assertion failed")

\* the numbers given as min, max and default
OptionalNumbers == {Absent} \cup {Some(v) : v \in Values}

\* the attribute values from which a FieldInfo is constructed
FieldInfoAttributes ==
    [name : {"f"},
     type : FieldTypes,
     default : OptionalNumbers,
     type_parameters : UNION {SeqsOfLen({FieldInfo("element", "boolean")}, n) : n \in 0..2},
     min : OptionalNumbers,
     max : OptionalNumbers,
     step : {Absent, Some(1)},
     database_connection : {Absent, Some("db")},
     template_parameters : {Absent, Some("template")},
     options : {Absent, Some(<<"a", "b">>)}]

\* -------------------------------------------------------------- parsing

\* field.python_type.model_validate(value) for a value of the field's type
ValueModelValidate(field, value) == [type |-> python_type(field), root |-> value]

\* {field.name: field.python_type.model_validate(raw[field.name])
\*  for field in fields if field.name in raw}
ParseFields(fields, raw) ==
    Ok([n \in {fields[k].name : k \in 1..Len(fields)} \cap DOMAIN raw |->
            ValueModelValidate(
                fields[CHOOSE k \in 1..Len(fields) :
                            /\ fields[k].name = n
                            /\ \A j \in (k + 1)..Len(fields) : fields[j].name # n],
                raw[n])])

\* AceTeamNode.parse_input
NodeParseInput(node, raw) == ParseFields(NodeInputFieldsInfo(node), raw)

\* AceTeamNode.parse_output
NodeParseOutput(node, raw) == ParseFields(NodeOutputFieldsInfo(node), raw)

\* AceTeamWorkflow.parse_input
WorkflowParseInput(wf, raw) == ParseFields(wf.inputs, raw)

\* AceTeamWorkflow.parse_output
WorkflowParseOutput(wf, raw) == ParseFields(wf.outputs, raw)

\* the four parse operations, on an And node and on the workflow WfFan / WfAnd
ParseTargets == {"node_input", "node_output", "workflow_input", "workflow_output"}

\* the fields a parse operation declares
ParseDeclared(target) ==
    CASE target = "node_input" -> NodeInputFieldsInfo(Node("g", "And"))
      [] target = "node_output" -> NodeOutputFieldsInfo(Node("g", "And"))
      [] target = "workflow_input" -> WfAnd.inputs
      [] target = "workflow_output" -> WfFan.outputs

\* the parse operation itself
Parse(target, raw) ==
    CASE target = "node_input" -> NodeParseInput(Node("g", "And"), raw)
      [] target = "node_output" -> NodeParseOutput(Node("g", "And"), raw)
      [] target = "workflow_input" -> WorkflowParseInput(WfAnd, raw)
      [] target = "workflow_output" -> WorkflowParseOutput(WfFan, raw)

\* raw maps: any of the declared names and one undeclared key, with boolean values
RawMaps(fields) ==
    UNION {[S -> BOOLEAN] :
           S \in SUBSET ({fields[k].name : k \in 1..Len(fields)} \cup {"extra"})}

\* ------------------------------------------------------------- registry

\* the names of the classes derived from AceTeamNode: a parametrised generic
\* base and two node classes
ClassNames == {"AceTeamNode[Data, Empty, Params]", "EqualNode", "APICallNode"}

\* a class object: Python compares classes by identity, not by name
Class(name, object) == [name |-> name, object |-> object]

\* cls.__name__.split("[")[0]
BaseName(cls) ==
    IF cls.name = "AceTeamNode[Data, Empty, Params]" THEN "AceTeamNode" ELSE cls.name

\* AceTeamNode.__init_subclass__(cls) on the list aceteam_nodes: the list
\* afterwards, and whether the assert passed
InitSubclass(aceteam_nodes, cls) ==
    IF BaseName(cls) # "AceTeamNode"
    THEN IF cls \in Range(aceteam_nodes)
         THEN [ok |-> FALSE, error |-> "AssertionError", aceteam_nodes |-> aceteam_nodes]
         ELSE [ok |-> TRUE, aceteam_nodes |-> Append(aceteam_nodes, cls)]
    ELSE [ok |-> TRUE, aceteam_nodes |-> aceteam_nodes]

\* the list aceteam_nodes and the number of class objects created so far
Registry ==
    IF call.op = "registry"
    THEN [aceteam_nodes |-> call.aceteam_nodes, classes |-> call.classes]
    ELSE [aceteam_nodes |-> <<>>, classes |-> 0]

\* the registry is in use, or nothing has happened yet
RegistryReady == StandAlone \/ (pc = "called" /\ call.op = "registry")

\* ------------------------------------------------------------ execution

\* a path without a file, a file that is not JSON text, and files holding a
\* JSON value; what a file that is not JSON holds is never read as a value
NoFile == [exists |-> FALSE, wellformed |-> FALSE, value |-> JsonNull]
MalformedFile == [exists |-> TRUE, wellformed |-> FALSE, value |-> JsonNull]
JsonFile(value) == [exists |-> TRUE, wellformed |-> TRUE, value |-> value]

\* the workflows written to files: one Not node, up to two inputs x and up to
\* two outputs y, with or without the input edge and the output edge
FileWorkflows ==
    {OneNodeWorkflow("Not", inputs, outputs_, ie, oe) :
        inputs \in UNION {SeqsOfLen({Bool("x")}, n) : n \in 0..2},
        outputs_ \in UNION {SeqsOfLen({Bool("y")}, n) : n \in 0..2},
        ie \in BOOLEAN, oe \in BOOLEAN}

\* the files given to load_workflow_from_file
Files ==
    {NoFile, MalformedFile, JsonFile(JsonNull), JsonFile(JsonObject([nodes |-> "invalid"]))}
    \cup {JsonFile(JsonObject(wf)) : wf \in FileWorkflows}

\* register_all_nodes(): imports the node modules
register_all_nodes == Ok(None)

\* json.load(f)
JsonLoad(file) ==
    IF file.wellformed
    THEN Ok(file.value)
    ELSE Err("JSONDecodeError", "Expecting value")

\* load_workflow_from_file
LoadWorkflowFromFile(file) ==
    IF ~register_all_nodes.ok THEN register_all_nodes
    ELSE IF ~file.exists
         THEN Err("WorkflowFileNotFoundError", "Workflow file not found")
    ELSE IF ~JsonLoad(file).ok THEN JsonLoad(file)
    ELSE LET validated == WorkflowModelValidate(JsonLoad(file).data) IN
         IF ~validated.ok /\ validated.error = "ValidationError"
         THEN Err("WorkflowDeserializationError", "Invalid workflow file")
         ELSE validated

\* what algorithm.execute may return: the errors of the workflow, the errors
\* of the nodes and the output values
EngineOutcomes ==
    [workflow_errors : {<<>>, <<"error">>},
     node_errors : {<<>>, <<"error">>},
     output_values : {<<>>} \cup [{"y"} -> {[type |-> "BooleanValue", root |-> TRUE]}]]

\* dump_data_mapping
dump_data_mapping(mapping) == [n \in DOMAIN mapping |-> mapping[n].root]

\* the dict returned by run_workflow_from_file with the two kinds of error
\* required together
MutRunResult(errors, output_values) ==
    IF errors.workflow_errors # <<>> /\ errors.node_errors # <<>>
    THEN [success |-> FALSE, output |-> dump_data_mapping(output_values), errors |-> errors]
    ELSE [success |-> TRUE, output |-> dump_data_mapping(output_values)]

\* the dict returned by run_workflow_from_file
RunResult(errors, output_values) ==
    IF errors.workflow_errors # <<>> \/ errors.node_errors # <<>>
    THEN [success |-> FALSE, output |-> dump_data_mapping(output_values), errors |-> errors]
    ELSE [success |-> TRUE, output |-> dump_data_mapping(output_values)]

\* run_workflow_from_file: the outcome, and whether the engine was called
RunWorkflowFromFile(file, raw, outcome) ==
    LET wf == LoadWorkflowFromFile(file) IN
    IF ~wf.ok
    THEN [res |-> wf, executed |-> FALSE]
    ELSE LET input_values == WorkflowParseInput(wf.data, IF raw = Absent THEN <<>> ELSE raw[1]) IN
         IF ~input_values.ok
         THEN [res |-> input_values, executed |-> FALSE]
         ELSE [res |-> Ok(RunResult([workflow_errors |-> outcome.workflow_errors,
                                     node_errors |-> outcome.node_errors],
                                    outcome.output_values)),
               executed |-> TRUE]

\* -------------------------------------------------------------- API call

\* a header value is the sequence of the media types it lists; `sub in value`
\* of the code is asked of whole media types only
In(sub, value) == \E k \in 1..Len(value) : value[k] = sub

\* str.lower() on a media type
Lower(token) == IF token = "Application/JSON" THEN "application/json" ELSE token

\* the header values given to Accept and received as content-type
HeaderValues ==
    {<<"application/json">>, <<"text/plain">>, <<"text/plain", "application/json">>,
     <<"Application/JSON">>, <<"text/json">>}

\* a header mapping with at most the one entry name: value
Headers(name, present, value) == IF present THEN (name :> value) ELSE <<>>

\* APICallNode(id, params) with params.headers and params.output_file; the url
\* is a constant template, and method, body_template, parameters and timeout
\* keep their defaults
APICallNode(headers, output_file) ==
    [id |-> "api_call", type |-> "APICall",
     params |-> [url |-> "url", headers |-> headers, parameters |-> <<>>,
                 body_template |-> "", output_file |-> output_file]]

\* APICallNode.supports_json_output
supports_json_output(node) ==
    /\ "Accept" \in DOMAIN node.params.headers
    /\ In("application/json", node.params.headers["Accept"])

\* APICallNode.output_type
APICallOutputType(node) ==
    IF node.params.output_file
    THEN IF supports_json_output(node)
         THEN "APICallJSONFileOutput"
         ELSE "APICallTextFileOutput"
    ELSE "APICallOutput"

\* what response.json() yields for the body: a dict, a list, an int or a str,
\* or no value for a text that is not JSON
Bodies == {"dict", "list", "int", "str", "text"}

\* what client.request comes to: a response, or an exception of httpx
RequestError == [kind |-> "error"]
Response(status_code, headers, body) ==
    [kind |-> "response", status_code |-> status_code, headers |-> headers, body |-> body]

\* APICallNode._is_json_response
IsJsonResponse(response) ==
    LET raw == IF "content-type" \in DOMAIN response.headers
               THEN response.headers["content-type"]
               ELSE <<>>
        content_type == [k \in 1..Len(raw) |-> Lower(raw[k])]
    IN  In("application/json", content_type) \/ In("text/json", content_type)

\* APICallNode._parse_response_data: the Python type of the parsed data;
\* response.text stands in when response.json() raises JSONDecodeError
ParseResponseData(response) ==
    IF IsJsonResponse(response) /\ response.body # "text"
    THEN response.body
    ELSE "str"

\* APICallNode.run, from the request on: no template parameter is declared and
\* the body template is empty, so the request is made with the headers alone
APICallRun(node, outcome) ==
    IF outcome.kind = "error" THEN Err("UserException", "Request failed")
    ELSE
    LET response_data == ParseResponseData(outcome) IN
    IF node.params.output_file
    THEN IF IsJsonResponse(outcome) /\ response_data \in {"dict", "list"}
         THEN Ok([variant |-> "APICallJSONFileOutput",
                  status_code |-> outcome.status_code,
                  response |-> "api_response.json",
                  headers |-> outcome.headers])
         ELSE Ok([variant |-> "APICallTextFileOutput",
                  status_code |-> outcome.status_code,
                  response |-> "api_response.txt",
                  headers |-> outcome.headers])
    ELSE Ok([variant |-> "APICallOutput",
             status_code |-> outcome.status_code,
             response |-> response_data,
             headers |-> outcome.headers])

\* ------------------------------------------------------------- behaviour

Init ==
    /\ workflow \in EmbeddedWorkflows
    /\ (input \in Inputs(workflow) \/ input \in StringInputs)
    /\ pc = "start"
    /\ result = None
    /\ input2 = None
    /\ result2 = None
    /\ outputs = <<>>
    /\ engineOut = None
    /\ expandRes = None
    /\ call = NoCall

\* the ForEach node runs on its input
ForEach ==
    /\ pc = "start"
    /\ result' = ForEachRun(workflow, input)
    /\ pc' = IF result'.ok THEN "expanded" ELSE "failed"
    /\ UNCHANGED <<workflow, input, input2, result2, outputs, engineOut, expandRes, call>>

\* the same ForEach node runs again, on an input of the same length
ForEachAgain ==
    /\ pc \in {"failed", "done", "error"}
    /\ result2 = None
    /\ \E in2 \in InputsOfKind(workflow, input.kind) :
        /\ in2.kind = input.kind
        /\ in2.kind \in {"array", "string"} => Len(in2.root) = Len(input.root)
        /\ input2' = in2
        /\ result2' = ForEachRun(workflow, in2)
    /\ UNCHANGED <<workflow, input, pc, result, outputs, engineOut, expandRes, call>>

\* the engine validates the returned graph and starts executing it
EngineStart ==
    /\ pc = "expanded"
    /\ IF ValidGraph(result.graph)
       THEN pc' = "running" /\ UNCHANGED engineOut
       ELSE pc' = "error" /\ engineOut' = Err("GraphError", "invalid graph")
    /\ UNCHANGED <<workflow, input, result, input2, result2, outputs, expandRes, call>>

\* the engine runs one node all of whose inputs are available
EngineRunNode ==
    /\ pc = "running"
    /\ \E k \in 1..Len(result.graph.nodes) :
        LET g == result.graph
            node == g.nodes[k]
            wfIn == [sequence |-> input]
        IN  /\ node.id \notin DOMAIN outputs
            /\ Ready(g, outputs, node)
            /\ IF ~PortsPresent(g, wfIn, outputs, node)
                  \/ ~(RequiredPorts(node) \subseteq DOMAIN NodeInput(g, wfIn, outputs, node))
               THEN /\ pc' = "error"
                    /\ engineOut' = Err("MissingInput", node.id)
                    /\ UNCHANGED outputs
               ELSE LET r == RunNode(node, NodeInput(g, wfIn, outputs, node)) IN
                    IF r.ok
                    THEN /\ outputs' = (node.id :> r.data) @@ outputs
                         /\ UNCHANGED <<pc, engineOut>>
                    ELSE /\ pc' = "error"
                         /\ engineOut' = r
                         /\ UNCHANGED outputs
    /\ UNCHANGED <<workflow, input, result, input2, result2, expandRes, call>>

\* every node has run: the engine reads the workflow outputs
EngineFinish ==
    /\ pc = "running"
    /\ \A k \in 1..Len(result.graph.nodes) : result.graph.nodes[k].id \in DOMAIN outputs
    /\ pc' = "done"
    /\ engineOut' = Ok(WorkflowOutput(result.graph, outputs))
    /\ UNCHANGED <<workflow, input, result, input2, result2, outputs, expandRes, call>>

\* a stand-alone ExpandSequence node of some length runs on some sequence
ExpandSequenceCall ==
    /\ pc = "start"
    /\ \E N \in 0..MaxLen, n \in 0..(MaxLen + 1) :
        \E seq \in SeqsOfLen(Items(workflow), n) :
            expandRes' =
                [node |-> ExpandSequenceFromLength("expand", N, input_type(workflow)),
                 sequence |-> seq,
                 res |-> ExpandSequenceRun(
                            ExpandSequenceFromLength("expand", N, input_type(workflow)),
                            [sequence |-> seq])]
    /\ pc' = "expand_called"
    /\ UNCHANGED <<workflow, input, result, input2, result2, outputs, engineOut, call>>

\* a JsonToSequence node runs on a JSON value of any kind
JsonToSequenceCall ==
    /\ StandAlone
    /\ \E data_type \in DataTypes, kind \in JsonKinds :
        \E root \in JsonRoots(kind) :
            LET json == JsonValue(kind, root) IN
            call' = [op |-> "json_to_sequence", data_type |-> data_type, json |-> json,
                     res |-> JsonToSequenceRun(
                                JsonToSequenceFromDataType("json_to_sequence", data_type),
                                [sequence |-> json])]
    /\ pc' = "called"
    /\ UNCHANGED <<workflow, input, result, input2, result2, outputs, engineOut, expandRes>>

\* an If node is constructed, its field declarations are read and it is run
IfCall ==
    /\ StandAlone
    /\ \E if_true \in BranchValues, condition \in BOOLEAN :
        LET node == IfNode("if", if_true) IN
        call' = [op |-> "if", if_true |-> if_true, condition |-> condition,
                 node |-> node,
                 input_fields_info |-> IfInputFieldsInfo(node.data),
                 output_fields_info |-> IfOutputFieldsInfo(node.data),
                 res |-> IfRun(node.data, [condition |-> condition])]
    /\ pc' = "called"
    /\ UNCHANGED <<workflow, input, result, input2, result2, outputs, engineOut, expandRes>>

\* an IfElse node is constructed, its field declarations are read and it is run
IfElseCall ==
    /\ StandAlone
    /\ \E if_true \in BranchValues, if_false \in BranchValues, condition \in BOOLEAN :
        LET node == IfElseNode("if_else", if_true, if_false) IN
        call' = [op |-> "if_else", if_true |-> if_true, if_false |-> if_false,
                 condition |-> condition,
                 node |-> node,
                 input_fields_info |-> IfElseInputFieldsInfo(node.data),
                 output_fields_info |-> IfElseOutputFieldsInfo(node.data),
                 res |-> IfElseRun(node.data, [condition |-> condition])]
    /\ pc' = "called"
    /\ UNCHANGED <<workflow, input, result, input2, result2, outputs, engineOut, expandRes>>

\* a FieldInfo is constructed from attribute values
FieldInfoCall ==
    /\ StandAlone
    /\ \E f \in FieldInfoAttributes :
        call' = [op |-> "field_info", attributes |-> f, res |-> FieldInfoModelValidate(f)]
    /\ pc' = "called"
    /\ UNCHANGED <<workflow, input, result, input2, result2, outputs, engineOut, expandRes>>

\* an AceTeamWorkflow is constructed
WorkflowCall ==
    /\ StandAlone
    /\ \E type \in {"Not", "Equal", "DataTransform"},
          inputs \in FieldsNamed("x"), outputs_ \in FieldsNamed("y"),
          with_input_edge \in BOOLEAN, with_output_edge \in BOOLEAN :
        LET wf == OneNodeWorkflow(type, inputs, outputs_, with_input_edge, with_output_edge) IN
        call' = [op |-> "workflow", workflow |-> wf, res |-> AceTeamWorkflowModelValidate(wf)]
    /\ pc' = "called"
    /\ UNCHANGED <<workflow, input, result, input2, result2, outputs, engineOut, expandRes>>

\* parse_input / parse_output is called on a node or a workflow with a raw map
ParseCall ==
    /\ StandAlone
    /\ \E target \in ParseTargets :
        \E raw \in RawMaps(ParseDeclared(target)) :
            call' = [op |-> "parse", target |-> target, raw |-> raw,
                     declared |-> ParseDeclared(target),
                     res |-> Parse(target, raw)]
    /\ pc' = "called"
    /\ UNCHANGED <<workflow, input, result, input2, result2, outputs, engineOut, expandRes>>

\* a class statement deriving from AceTeamNode is executed: a new class object
\* is created and the hook runs on it
DefineSubclass ==
    /\ RegistryReady
    /\ Registry.classes < MaxClasses
    /\ \E name \in ClassNames :
        LET cls == Class(name, Registry.classes + 1)
            res == InitSubclass(Registry.aceteam_nodes, cls) IN
        call' = [op |-> "registry", cls |-> cls, again |-> FALSE,
                 before |-> Registry.aceteam_nodes,
                 aceteam_nodes |-> res.aceteam_nodes,
                 classes |-> Registry.classes + 1,
                 ok |-> res.ok]
    /\ pc' = "called"
    /\ UNCHANGED <<workflow, input, result, input2, result2, outputs, engineOut, expandRes>>

\* the hook runs a second time on a class object that exists already
InitSubclassAgain ==
    /\ pc = "called" /\ call.op = "registry"
    /\ ~call.again
    /\ \E name \in ClassNames, object \in 1..Registry.classes :
        LET cls == Class(name, object)
            res == InitSubclass(Registry.aceteam_nodes, cls) IN
        /\ cls \in Range(Registry.aceteam_nodes)
        /\ call' = [op |-> "registry", cls |-> cls, again |-> TRUE,
                    before |-> Registry.aceteam_nodes,
                    aceteam_nodes |-> res.aceteam_nodes,
                    classes |-> Registry.classes,
                    ok |-> res.ok]
    /\ pc' = "called"
    /\ UNCHANGED <<workflow, input, result, input2, result2, outputs, engineOut, expandRes>>

\* load_workflow_from_file is called on a path
LoadWorkflowCall ==
    /\ StandAlone
    /\ \E file \in Files :
        call' = [op |-> "load", file |-> file, res |-> LoadWorkflowFromFile(file)]
    /\ pc' = "called"
    /\ UNCHANGED <<workflow, input, result, input2, result2, outputs, engineOut, expandRes>>

\* run_workflow_from_file is called on a path, with or without an input
RunWorkflowCall ==
    /\ StandAlone
    /\ \E file \in Files, raw \in {Absent, Some([x |-> TRUE])}, outcome \in EngineOutcomes :
        LET run == RunWorkflowFromFile(file, raw, outcome) IN
        call' = [op |-> "run", file |-> file, raw |-> raw, outcome |-> outcome,
                 res |-> run.res, executed |-> run.executed]
    /\ pc' = "called"
    /\ UNCHANGED <<workflow, input, result, input2, result2, outputs, engineOut, expandRes>>

\* an API call node runs and its request fails or is answered
APICallCall ==
    /\ StandAlone
    /\ \E output_file \in BOOLEAN, accept \in BOOLEAN, a \in HeaderValues :
        LET node == APICallNode(Headers("Accept", accept, a), output_file) IN
        \/ call' = [op |-> "api_call", node |-> node, outcome |-> RequestError,
                    output_type |-> APICallOutputType(node),
                    res |-> APICallRun(node, RequestError)]
        \/ \E status_code \in {200, 404}, typed \in BOOLEAN, c \in HeaderValues,
              body \in Bodies :
            LET outcome == Response(status_code, Headers("content-type", typed, c), body) IN
            call' = [op |-> "api_call", node |-> node, outcome |-> outcome,
                     output_type |-> APICallOutputType(node),
                     res |-> APICallRun(node, outcome)]
    /\ pc' = "called"
    /\ UNCHANGED <<workflow, input, result, input2, result2, outputs, engineOut, expandRes>>

\* a gather node of some length runs on its ports and an expand node on the result
GatherExpandCall ==
    /\ StandAlone
    /\ \E N \in 0..(MaxLen + 1) :
        \E ports \in [{key(i) : i \in 0..(N - 1)} -> Values] :
            call' = GatherExpand(N, ports)
    /\ pc' = "called"
    /\ UNCHANGED <<workflow, input, result, input2, result2, outputs, engineOut, expandRes>>

\* an expand node of some length runs on a sequence and a gather node on the result
ExpandGatherCall ==
    /\ StandAlone
    /\ \E N \in 0..(MaxLen + 1) :
        \E seq \in SeqsOfLen(Values, N) :
            call' = ExpandGather(N, seq)
    /\ pc' = "called"
    /\ UNCHANGED <<workflow, input, result, input2, result2, outputs, engineOut, expandRes>>

Next ==
    \/ ForEach
    \/ ForEachAgain
    \/ EngineStart
    \/ EngineRunNode
    \/ EngineFinish
    \/ ExpandSequenceCall
    \/ GatherExpandCall
    \/ ExpandGatherCall
    \/ JsonToSequenceCall
    \/ IfCall
    \/ IfElseCall
    \/ FieldInfoCall
    \/ WorkflowCall
    \/ ParseCall
    \/ DefineSubclass
    \/ InitSubclassAgain
    \/ LoadWorkflowCall
    \/ RunWorkflowCall
    \/ APICallCall

Spec == Init /\ [][Next]_vars

\* ---------------------------------------------------------------- claims

\* the embedded workflow has a node whose namespaced id is an adapter's id
Collides(wf) ==
    \E n \in Range(wf.nodes) : n.id \in {"input_adapter", "output_adapter"}

\* the engine has finished, with outputs or with an error
Finished == pc \in {"done", "error"}

\* C1: executing the graph returned by ForEachNode.run on an input array of
\* length N yields an output sequence of length N whose element i is the
\* output of the embedded workflow run alone on element i.
C1_ExecutionElementwise ==
    (Finished /\ input.kind = "array") =>
        /\ pc = "done"
        /\ engineOut.ok
        /\ Len(engineOut.data.sequence) = Len(input.root)
        /\ \A i \in 1..Len(input.root) :
            engineOut.data.sequence[i] = RunAlone(workflow, input.root[i])

\* C1 holds of every embedded workflow whose namespaced ids stay distinct
ElementwiseWhenIdsDistinct == Collides(workflow) \/ C1_ExecutionElementwise

\* ForEachNode.run has returned a graph
Expanded == pc \in {"expanded", "running", "done", "error"}

\* the id "element_<i>/<id>" of the copy of node id in iteration i
CopyId(i, id) == "element_" \o ToString(i) \o "/" \o id

\* number of nodes of the sequence ns with this id and this type
NodesWith(ns, id, type) ==
    Cardinality({k \in 1..Len(ns) : ns[k].id = id /\ ns[k].type = type})

\* C2: the returned graph holds json_to_sequence, expand, gather and, for each
\* i < N, one input adapter, one output adapter and one copy of each of the K
\* embedded nodes under namespace element_i: 3 + N*(K+2) nodes, nothing else.
C2_NodeSet ==
    Expanded =>
        LET ns == result.graph.nodes
            N == Len(input.root)
            K == Len(workflow.nodes)
        IN  /\ Len(ns) = 3 + N * (K + 2)
            /\ NodesWith(ns, "json_to_sequence", "JsonToSequence") = 1
            /\ NodesWith(ns, "expand", "ExpandSequence") = 1
            /\ NodesWith(ns, "gather", "GatherSequence") = 1
            /\ \A i \in 0..(N - 1) :
                /\ NodesWith(ns, CopyId(i, "input_adapter"), "ExpandData") = 1
                /\ NodesWith(ns, CopyId(i, "output_adapter"), "GatherData") = 1
                /\ \A m \in 1..K :
                    NodesWith(ns, CopyId(i, workflow.nodes[m].id), workflow.nodes[m].type) = 1

C2_Witness ==
    /\ Expanded
    /\ Len(input.root) = MaxLen
    /\ Len(workflow.nodes) >= 2

\* C3: for every iteration i and every input_edge of the embedded workflow the
\* returned graph has exactly one edge from iteration i's input adapter, with
\* source_key = input_key, to the copy of the target at the same target_key.
C3_InputEdgesRewired ==
    Expanded =>
        \A i \in 0..(Len(input.root) - 1) :
            \A k \in 1..Len(workflow.input_edges) :
                LET ie == workflow.input_edges[k] IN
                Count(result.graph.edges,
                      Edge(CopyId(i, "input_adapter"), ie.input_key,
                           CopyId(i, ie.target_id), ie.target_key)) = 1

C3_Witness ==
    /\ Expanded
    /\ Len(input.root) = MaxLen
    /\ Len(workflow.input_edges) >= 2

\* C4: for every iteration i and every output_edge of the embedded workflow the
\* returned graph has exactly one edge from the copy of the source, at the same
\* source_key, to iteration i's output adapter with target_key = output_key.
C4_OutputEdgesRewired ==
    Expanded =>
        \A i \in 0..(Len(input.root) - 1) :
            \A k \in 1..Len(workflow.output_edges) :
                LET oe == workflow.output_edges[k] IN
                Count(result.graph.edges,
                      Edge(CopyId(i, oe.source_id), oe.source_key,
                           CopyId(i, "output_adapter"), oe.output_key)) = 1

C4_Witness ==
    /\ Expanded
    /\ Len(input.root) = MaxLen
    /\ Len(workflow.output_edges) >= 2

\* C5: expand.element_i feeds the data port of iteration i's input adapter, the
\* data port of iteration i's output adapter feeds gather.element_i, and no
\* edge leaves expand or enters gather other than these, one per iteration.
C5_ExpandGatherWiring ==
    Expanded =>
        LET es == result.graph.edges
            N == Len(input.root)
            fromExpand(i) == Edge("expand", "element_" \o ToString(i),
                                  CopyId(i, "input_adapter"), "data")
            toGather(i) == Edge(CopyId(i, "output_adapter"), "data",
                                "gather", "element_" \o ToString(i))
        IN  /\ \A i \in 0..(N - 1) :
                Count(es, fromExpand(i)) = 1 /\ Count(es, toGather(i)) = 1
            /\ \A k \in 1..Len(es) :
                /\ es[k].source_id = "expand" => \E i \in 0..(N - 1) : es[k] = fromExpand(i)
                /\ es[k].target_id = "gather" => \E i \in 0..(N - 1) : es[k] = toGather(i)

C5_Witness ==
    /\ Expanded
    /\ Len(input.root) = MaxLen
    /\ \E n \in Range(workflow.nodes) : n.id \in {"expand", "gather"}

\* C6: the returned graph has exactly one input_edge, sequence ->
\* json_to_sequence.sequence, exactly one output_edge, gather.sequence ->
\* sequence, and exactly one edge json_to_sequence.sequence -> expand.sequence.
C6_BoundaryEdges ==
    Expanded =>
        /\ result.graph.input_edges =
                <<InputEdge("sequence", "json_to_sequence", "sequence")>>
        /\ result.graph.output_edges =
                <<OutputEdge("gather", "sequence", "sequence")>>
        /\ Count(result.graph.edges,
                 Edge("json_to_sequence", "sequence", "expand", "sequence")) = 1
        /\ Cardinality({k \in 1..Len(result.graph.edges) :
                result.graph.edges[k].source_id = "json_to_sequence"}) = 1

C6_Witness ==
    /\ Expanded
    /\ Len(input.root) = MaxLen
    /\ \E n \in Range(workflow.nodes) : n.id = "json_to_sequence"

\* ForEachNode.run has been called
Called == pc \in {"failed", "expanded", "running", "done", "error"}

\* C7: on an empty input sequence ForEachNode.run succeeds and returns a graph
\* with no per-iteration copies and no expand / gather element ports, and
\* executing that graph produces an empty output sequence.
C7_EmptySequence ==
    (Called /\ input.kind = "array" /\ Len(input.root) = 0) =>
        /\ pc # "failed"
        /\ result.ok
        /\ Len(result.graph.nodes) = 3
        /\ \A n \in Range(result.graph.nodes) :
            /\ n.type \notin {"ExpandData", "GatherData"}
            /\ n.type \in {"ExpandSequence", "GatherSequence"} => keys(n) = <<>>
        /\ \A e \in Range(result.graph.edges) :
            e.source_id # "expand" /\ e.target_id # "gather"
        /\ Finished => (pc = "done" /\ engineOut.ok /\ engineOut.data.sequence = <<>>)

C7_Witness ==
    /\ pc = "done"
    /\ input = JsonArray(<<>>)
    /\ Len(workflow.nodes) >= 1

\* some namespaced copy of an embedded node gets the id of an adapter
NamespaceCollision ==
    \E i \in 0..(Len(input.root) - 1) : \E n \in Range(workflow.nodes) :
        CopyId(i, n.id) \in {CopyId(i, "input_adapter"), CopyId(i, "output_adapter")}

\* C8: when an embedded node id collides with an id produced by the element_i
\* namespacing, ForEachNode.run fails with an error instead of returning a graph.
C8_CollisionFailsFast ==
    (Called /\ input.kind = "array" /\ NamespaceCollision) => pc = "failed"

\* C9: a second ForEachNode.run call on the same node, with an input sequence
\* of the same length, returns a graph with the same nodes, edges, input_edges
\* and output_edges as the first call.
C9_Deterministic ==
    result2 # None => result2 = result

C9_Witness ==
    /\ result2 # None
    /\ result2.ok
    /\ input2 # input
    /\ Len(workflow.nodes) >= 1

\* C10: ExpandSequenceNode.run of length N on a sequence of another length
\* fails with a UserException naming the expected and the actual length.
C10_LengthMismatchUserException ==
    (pc = "expand_called" /\ Len(expandRes.sequence) # expandRes.node.params.length) =>
        /\ ~expandRes.res.ok
        /\ expandRes.res.error = "UserException"
        /\ expandRes.res.message =
            "Expected sequence of length " \o ToString(expandRes.node.params.length)
            \o ", but got " \o ToString(Len(expandRes.sequence))

\* C11: gathering ports element_0..element_{N-1} yields their values in index
\* order and expanding that sequence yields the original ports; expanding a
\* sequence of length N and gathering the ports yields the same sequence.
C11_GatherExpandInverse ==
    /\ call.op = "gather_expand" =>
        /\ call.gathered.ok
        /\ call.gathered.data.sequence =
            [k \in 1..call.length |-> call.ports["element_" \o ToString(k - 1)]]
        /\ call.expanded.ok
        /\ call.expanded.data = call.ports
    /\ call.op = "expand_gather" =>
        /\ call.expanded.ok
        /\ call.gathered.ok
        /\ call.gathered.data.sequence = call.sequence

C11_Witness ==
    /\ call.op = "gather_expand"
    /\ call.length = MaxLen + 1
    /\ call.expanded.ok
    /\ \E j, k \in 1..call.length : call.gathered.data.sequence[j] # call.gathered.data.sequence[k]

\* C12: JsonToSequenceNode.run fails with a UserException for every JSON value
\* that is not an array, and validates elements only for arrays.
C12_NonArrayUserException ==
    (call.op = "json_to_sequence" /\ call.json.kind # "array") =>
        (~call.res.ok /\ call.res.error = "UserException")

\* what the isinstance check does give: a UserException for every JSON value
\* that is neither an array nor a string
UserExceptionUnlessSequence ==
    (call.op = "json_to_sequence" /\ call.json.kind \notin {"array", "string"}) =>
        (~call.res.ok /\ call.res.error = "UserException")

\* the if_true parameter of the called node holds a workflow
TrueIsWorkflow == call.if_true.kind = "object"

\* the if_false parameter of the called node holds a workflow
FalseIsWorkflow == call.if_false.kind = "object"

\* the names of a sequence of fields
Names(fields) == {fields[k].name : k \in 1..Len(fields)}

\* C13: an If node's input fields are condition: Boolean followed by the
\* embedded workflow's inputs in their order, and constructing an If node whose
\* embedded workflow declares an input named condition fails.
C13_IfInputFields ==
    (call.op = "if" /\ TrueIsWorkflow) =>
        IF "condition" \in Names(call.if_true.root.inputs)
        THEN ~call.node.ok
        ELSE /\ call.node.ok
             /\ call.input_fields_info.ok
             /\ call.input_fields_info.data =
                    <<FieldInfo("condition", "boolean")>> \o call.if_true.root.inputs

\* what the code does give: the node is constructed, and the reserved name is
\* refused when the input fields are first read
IfConditionRefusedOnAccess ==
    (call.op = "if" /\ TrueIsWorkflow) =>
        /\ call.node.ok
        /\ IF "condition" \in Names(call.if_true.root.inputs)
           THEN ~call.input_fields_info.ok /\ call.input_fields_info.error = "AssertionError"
           ELSE /\ call.input_fields_info.ok
                /\ call.input_fields_info.data =
                       <<FieldInfo("condition", "boolean")>> \o call.if_true.root.inputs

\* C14: IfNode.run returns the embedded if_true workflow unchanged when the
\* condition is true and the no-op sentinel None when it is false.
C14_IfRun ==
    (call.op = "if" /\ TrueIsWorkflow) =>
        /\ call.res.ok
        /\ call.condition => call.res.data = call.if_true.root
        /\ ~call.condition => call.res.data = None

C14_WitnessTrue ==
    /\ call.op = "if" /\ TrueIsWorkflow
    /\ call.condition
    /\ call.res.ok /\ call.res.data = WfChain

C14_Witness ==
    /\ call.op = "if" /\ TrueIsWorkflow
    /\ ~call.condition
    /\ call.if_true.root = WfChain
    /\ call.res.ok /\ call.res.data = None

\* the name/kind pairs of a sequence of fields
NameKinds(fields) == {<<fields[k].name, fields[k].type>> : k \in 1..Len(fields)}

\* the two branches of the called IfElse node declare the same input fields
InputsMatch == NameKinds(call.if_true.root.inputs) = NameKinds(call.if_false.root.inputs)

\* the two branches of the called IfElse node declare the same output fields
OutputsMatch == NameKinds(call.if_true.root.outputs) = NameKinds(call.if_false.root.outputs)

\* C15: constructing an IfElse node fails whenever the two branches differ in
\* their input name/kind sets or in their output name/kind sets, and succeeds
\* whenever both sets match.
C15_IfElseSchemasMatch ==
    (call.op = "if_else" /\ TrueIsWorkflow /\ FalseIsWorkflow) =>
        (call.node.ok <=> (InputsMatch /\ OutputsMatch))

\* what the code does give: the node is constructed; reading its input fields
\* fails exactly if the input sets differ or hold the reserved name, and
\* reading its output fields fails exactly if the output sets differ
IfElseMismatchRefusedOnAccess ==
    (call.op = "if_else" /\ TrueIsWorkflow /\ FalseIsWorkflow) =>
        /\ call.node.ok
        /\ call.input_fields_info.ok <=>
            (InputsMatch /\ "condition" \notin Names(call.if_true.root.inputs))
        /\ ~call.input_fields_info.ok => call.input_fields_info.error = "AssertionError"
        /\ call.output_fields_info.ok <=> OutputsMatch
        /\ ~call.output_fields_info.ok => call.output_fields_info.error = "AssertionError"

\* C16: IfElseNode.run returns the if_true workflow as supplied when the
\* condition is true and the if_false workflow when it is false.
C16_IfElseRun ==
    (call.op = "if_else" /\ TrueIsWorkflow /\ FalseIsWorkflow) =>
        /\ call.res.ok
        /\ call.condition => call.res.data = call.if_true.root
        /\ ~call.condition => call.res.data = call.if_false.root

C16_Witness ==
    /\ call.op = "if_else"
    /\ call.condition
    /\ call.if_true = JsonObject(WfNot)
    /\ call.if_false = JsonObject(WfChain)
    /\ call.res.ok /\ call.res.data = WfNot

\* a type-restricted attribute is set on a kind that does not own it
RestrictedAttributeSet(f) ==
    \/ f.type # "number" /\ (f.min # Absent \/ f.max # Absent \/ f.step # Absent)
    \/ f.type # "sql" /\ f.database_connection # Absent
    \/ f.type \notin {"long_text", "short_text"} /\ f.template_parameters # Absent
    \/ f.type # "short_text" /\ f.options # Absent
    \/ f.type # "sequence" /\ Len(f.type_parameters) > 0
    \/ f.type = "sequence" /\ Len(f.type_parameters) > 1

\* C17: constructing a FieldInfo fails if a type-restricted attribute is set on
\* a kind that does not own it: min/max/step on a non-Number,
\* database_connection on a non-Sql, template_parameters on a kind other than
\* LongText/ShortText, options on a non-ShortText, type_parameters on a
\* non-Sequence, more than one type parameter on a Sequence.
C17_RestrictedAttributes ==
    (call.op = "field_info" /\ RestrictedAttributeSet(call.attributes)) => ~call.res.ok

C17_Witness ==
    /\ call.op = "field_info"
    /\ call.attributes.type = "long_text"
    /\ call.attributes.type_parameters # <<>>
    /\ call.attributes.min = Absent /\ call.attributes.max = Absent
    /\ call.attributes.step = Absent /\ call.attributes.options = Absent
    /\ call.attributes.database_connection = Absent
    /\ ~call.res.ok

\* the present pairs among min, default and max are ordered
Ordered(f) ==
    /\ (f.min # Absent /\ f.max # Absent) => f.min[1] <= f.max[1]
    /\ (f.min # Absent /\ f.default # Absent) => f.min[1] <= f.default[1]
    /\ (f.default # Absent /\ f.max # Absent) => f.default[1] <= f.max[1]

\* C18: every constructed FieldInfo satisfies min <= default <= max for the
\* ones that are present, and a FieldInfo violating one of the three pairwise
\* orderings fails construction.
C18_MinDefaultMax ==
    call.op = "field_info" =>
        /\ call.res.ok => Ordered(call.res.data)
        /\ ~Ordered(call.attributes) => ~call.res.ok

C18_Witness ==
    /\ call.op = "field_info"
    /\ call.res.ok
    /\ call.res.data.min = Some(0)
    /\ call.res.data.default = Some(0)
    /\ call.res.data.max = Some(MaxNum)

\* the pairs of a declared input and the node port an input_edge binds it to
InputBindings(wf) ==
    UNION {{<<f, p>> : f \in {g \in Range(wf.inputs) : g.name = e.input_key},
                       p \in {q \in Range(NodeInputFieldsInfo(NodeById(wf, e.target_id))) :
                                q.name = e.target_key}} :
           e \in Range(wf.input_edges)}

\* the pairs of a declared output and the node port an output_edge binds it to
OutputBindings(wf) ==
    UNION {{<<f, p>> : f \in {g \in Range(wf.outputs) : g.name = e.output_key},
                       p \in {q \in Range(NodeOutputFieldsInfo(NodeById(wf, e.source_id))) :
                                q.name = e.source_key}} :
           e \in Range(wf.output_edges)}

\* C19 as stated: validation rejects every workflow with an input_edge or an
\* output_edge whose workflow field kind differs from the kind of the node port.
C19_KindMismatchRejected ==
    call.op = "workflow" =>
        ((\E b \in InputBindings(call.workflow) \cup OutputBindings(call.workflow) :
                b[1].type # b[2].type)
            => ~call.res.ok)

\* C19: validation rejects every workflow with an input_edge or an output_edge
\* whose workflow field maps to another value type than the node port does;
\* kinds that map to the same value type are not told apart.
C19_ValueTypeMismatchRejected ==
    call.op = "workflow" =>
        ((\E b \in InputBindings(call.workflow) \cup OutputBindings(call.workflow) :
                python_type(b[1]) # python_type(b[2]))
            => ~call.res.ok)

C19_Witness ==
    /\ call.op = "workflow"
    /\ call.workflow.inputs = <<FieldInfo("x", "short_text")>>
    /\ call.workflow.outputs = <<FieldInfo("y", "number")>>
    /\ call.workflow.nodes = <<Node("n", "DataTransform")>>
    /\ Len(call.workflow.input_edges) = 1
    /\ Len(call.workflow.output_edges) = 1
    /\ ~call.res.ok /\ call.res.error = "GraphError"

\* C20: every constructed AceTeamWorkflow has pairwise-distinct input names and
\* pairwise-distinct output names, whether or not an edge refers to them.
C20_UniqueFieldNames ==
    (call.op = "workflow" /\ call.res.ok) =>
        (~HasDuplicate(call.workflow.inputs) /\ ~HasDuplicate(call.workflow.outputs))

\* what the code does give: duplicate inputs are refused when there is an
\* input_edge, duplicate outputs when there is an output_edge
DuplicatesRefusedWhenBound ==
    (call.op = "workflow" /\ call.res.ok) =>
        /\ call.workflow.input_edges # <<>> => ~HasDuplicate(call.workflow.inputs)
        /\ call.workflow.output_edges # <<>> => ~HasDuplicate(call.workflow.outputs)

\* C21: parse_input / parse_output ignore undeclared keys of the raw map and
\* fail with a ValidationError when a declared field is missing from it; they
\* never return a record that lacks a declared field.
C21_ParseMissingFails ==
    call.op = "parse" =>
        /\ call.res.ok => DOMAIN call.res.data = Names(call.declared)
        /\ (\E n \in Names(call.declared) : n \notin DOMAIN call.raw) =>
                (~call.res.ok /\ call.res.error = "ValidationError")

\* what the code does give: exactly the declared fields that the raw map
\* holds are parsed, the others are left out without an error
ParseKeepsDeclaredPresent ==
    call.op = "parse" =>
        /\ call.res.ok
        /\ DOMAIN call.res.data = Names(call.declared) \cap DOMAIN call.raw

RegistryDuplicateFreeByClass ==
    call.op = "registry" =>
        /\ \A j, k \in 1..Len(call.aceteam_nodes) :
                (j # k) => call.aceteam_nodes[j] # call.aceteam_nodes[k]
        /\ call.aceteam_nodes \in {call.before, Append(call.before, call.cls)}
        /\ (call.cls \in Range(call.before)) =>
                (~call.ok /\ call.aceteam_nodes = call.before)

\* C23: load_workflow_from_file raises WorkflowFileNotFoundError exactly when
\* the path does not exist, and WorkflowDeserializationError for every existing
\* file that does not hold a valid workflow; no other exception escapes.
C23_LoadErrors ==
    call.op = "load" =>
        /\ (~call.res.ok /\ call.res.error = "WorkflowFileNotFoundError") <=> ~call.file.exists
        /\ ~call.res.ok =>
                call.res.error \in {"WorkflowFileNotFoundError", "WorkflowDeserializationError"}

\* what the code does give: a missing path and only a missing path raises
\* WorkflowFileNotFoundError
NotFoundExactlyWhenMissing ==
    call.op = "load" =>
        ((~call.res.ok /\ call.res.error = "WorkflowFileNotFoundError") <=> ~call.file.exists)

Ids(g) == {g.nodes[k].id : k \in 1..Len(g.nodes)}

\* C25: in the graph returned by ForEachNode.run all node ids are pairwise
\* distinct, for every N and every embedded workflow with unique node ids.
C25_NodeIdsDistinct ==
    (Expanded /\ Cardinality(Ids(workflow)) = Len(workflow.nodes)) =>
        \A j, k \in 1..Len(result.graph.nodes) :
            (j # k) => result.graph.nodes[j].id # result.graph.nodes[k].id

\* the ids are distinct for every embedded workflow without a node called
\* input_adapter or output_adapter
IdsDistinctUnlessAdapterName == Collides(workflow) \/ C25_NodeIdsDistinct

\* no cycle among these ids along these edges: sources are removed until
\* nothing is left, or until what is left has no source
RECURSIVE AcyclicFrom(_, _)
AcyclicFrom(ids, edges) ==
    IF ids = {} THEN TRUE
    ELSE LET sources == {v \in ids :
                            ~\E e \in edges : e.target_id = v /\ e.source_id \in ids} IN
         IF sources = {} THEN FALSE ELSE AcyclicFrom(ids \ sources, edges)

\* the edge relation of a graph, input and output edges left out, is acyclic
Acyclic(g) == AcyclicFrom(Ids(g), Range(g.edges))

\* C26: whenever the embedded workflow's edge relation is acyclic, so is the
\* edge relation of the returned graph: json_to_sequence precedes expand,
\* expand precedes every input adapter, gather has no outgoing edge.
C26_Acyclic ==
    (Expanded /\ Acyclic(workflow)) =>
        /\ Acyclic(result.graph)
        /\ \E e \in Range(result.graph.edges) :
                e.source_id = "json_to_sequence" /\ e.target_id = "expand"
        /\ \A i \in 0..(Len(input.root) - 1) :
                \E e \in Range(result.graph.edges) :
                    e.source_id = "expand" /\ e.target_id = CopyId(i, "input_adapter")
        /\ \A e \in Range(result.graph.edges) : e.source_id # "gather"

\* the returned graph is acyclic for every embedded workflow without a node
\* called input_adapter or output_adapter
AcyclicUnlessAdapterName == Collides(workflow) \/ C26_Acyclic

\* every endpoint named by an edge of g is the id of a node of g
NoDangling(g) ==
    /\ \A e \in Range(g.edges) : e.source_id \in Ids(g) /\ e.target_id \in Ids(g)
    /\ \A e \in Range(g.input_edges) : e.target_id \in Ids(g)
    /\ \A e \in Range(g.output_edges) : e.source_id \in Ids(g)

\* C27: in the returned graph every edge's source_id and target_id, the
\* input_edge's target_id and the output_edge's source_id are ids of nodes of
\* the graph, provided the embedded workflow has no dangling edge endpoint.
C27_EndpointsPresent == (Expanded /\ NoDangling(workflow)) => NoDangling(result.graph)

C27_Witness ==
    /\ Expanded
    /\ workflow = WfFan
    /\ Len(input.root) = MaxLen
    /\ Len(result.graph.edges) = 1 + MaxLen * 7

\* the ids of the nodes of iteration i: its two adapters and its copies
IterationIds(i) ==
    {CopyId(i, id) : id \in Ids(workflow) \cup {"input_adapter", "output_adapter"}}

\* C28: no edge of the returned graph connects a node of iteration i to a node
\* of iteration j # i; iterations are reached only from expand and lead only
\* to gather.
C28_IterationsIsolated ==
    Expanded =>
        \A e \in Range(result.graph.edges) :
            \/ e.source_id = "json_to_sequence" /\ e.target_id = "expand"
            \/ \E i \in 0..(Len(input.root) - 1) :
                /\ e.source_id \in IterationIds(i) \cup {"expand"}
                /\ e.target_id \in IterationIds(i) \cup {"gather"}
                /\ \A j \in 0..(Len(input.root) - 1) :
                        (j # i) => (e.source_id \notin IterationIds(j)
                                    /\ e.target_id \notin IterationIds(j))

C28_Witness ==
    /\ Expanded
    /\ workflow = WfChain
    /\ Len(input.root) = MaxLen
    /\ \E e \in Range(result.graph.edges) :
            e.source_id = CopyId(1, "n1") /\ e.target_id = CopyId(1, "n2")

\* what the json_to_sequence node of the returned graph emits for the input
\* the ForEach node was run on
Emitted == JsonToSequenceRun(result.graph.nodes[1], [sequence |-> input])

\* C29: the length N that sizes the expand and gather nodes equals the number
\* of elements json_to_sequence emits for the same input; so for every input
\* json_to_sequence accepts, the expand node's length check passes and every
\* gather port element_0..element_{N-1} receives a value.
C29_LengthMatchesEmitted ==
    (Expanded /\ Emitted.ok) =>
        LET g == result.graph
            N == Len(Emitted.data.sequence) IN
        /\ g.nodes[1].type = "JsonToSequence"
        /\ g.nodes[2].type = "ExpandSequence" /\ g.nodes[2].params.length = N
        /\ g.nodes[3].type = "GatherSequence" /\ g.nodes[3].params.length = N
        /\ ExpandSequenceRun(g.nodes[2], Emitted.data).ok
        /\ \A i \in 0..(N - 1) :
                \E e \in Range(g.edges) : e.target_id = "gather" /\ e.target_key = key(i)
        /\ (pc = "error") =>
                /\ engineOut.error # "AssertionError"
                /\ engineOut # Err("MissingInput", "gather")
        /\ ("expand" \in DOMAIN outputs) =>
                DOMAIN outputs["expand"] = {key(i) : i \in 0..(N - 1)}
        /\ ("gather" \in DOMAIN outputs) => Len(outputs["gather"].sequence) = N

C29_Witness ==
    /\ pc = "done"
    /\ workflow = WfNot
    /\ input.kind = "array"
    /\ Len(input.root) = MaxLen
    /\ Emitted.ok
    /\ Len(outputs["gather"].sequence) = MaxLen

\* a JSON string reaches the same nodes: the empty one is accepted and sized 0,
\* any other is turned down by json_to_sequence before expand runs
StringInputStopsAtJsonToSequence ==
    (Finished /\ input.kind = "string" /\ ~Collides(workflow)) =>
        IF Len(input.root) = 0
        THEN pc = "done" /\ Emitted.ok
        ELSE pc = "error" /\ ~Emitted.ok /\ engineOut.error = "ValidationError"
             /\ "expand" \notin DOMAIN outputs

\* C30: for every combination of params.output_file, the Accept header and the
\* response's content type, the record APICallNode.run returns is of the
\* variant the node's output_type declares.
C30_ReturnsDeclaredVariant ==
    (call.op = "api_call" /\ call.res.ok) => call.res.data.variant = call.output_type

\* without output_file the record is an APICallOutput, as declared
DeclaredVariantWithoutFile ==
    (call.op = "api_call" /\ call.res.ok /\ ~call.node.params.output_file) =>
        /\ call.output_type = "APICallOutput"
        /\ call.res.data.variant = "APICallOutput"

\* with output_file the variant follows the response and the declaration
\* follows the Accept header
FileVariantFollowsResponse ==
    (call.op = "api_call" /\ call.res.ok /\ call.node.params.output_file) =>
        /\ call.res.data.variant = "APICallJSONFileOutput"
            <=> (IsJsonResponse(call.outcome) /\ call.outcome.body \in {"dict", "list"})
        /\ call.output_type = "APICallJSONFileOutput"
            <=> supports_json_output(call.node)
        /\ call.res.data.variant \in {"APICallJSONFileOutput", "APICallTextFileOutput"}

====
